---- MODULE Spec2Model ----
(***************************************************************************)
(* Model of the two Ansible modules of clickhouse_modules:                 *)
(*   clickhouse_grants.py  (role assignment and privilege grants)          *)
(*   clickhouse_users.py   (user lifecycle: create / update / delete)      *)
(* Each module run is one reconciliation call against a ClickHouse server  *)
(* that is reached only through ch_connect.execute.  A call is modelled as *)
(* one step that dispatches, observes and plans (everything the code does  *)
(* before its execution loop) followed by one step per statement of the    *)
(* loop  [ch_connect.execute(query) for query in query_list].              *)
(*                                                                         *)
(* Statements are kept as records of the parts the f-strings interpolate   *)
(* (kind, joined item list, scope, target, replace clause), not as text.   *)
(***************************************************************************)
EXTENDS Integers, Sequences, FiniteSets, TLC

\* ---------------------------------------------------------------- bounds
\* Longest grant_roles / user_roles list drawn as input.
MaxRoles == 2
\* Longest grants list drawn as input.
MaxGrants == 2
\* Longest databases list drawn as input.
MaxDbs == 2
\* Longest tables list drawn as input.
MaxTables == 2

\* ----------------------------------------------------------- name spaces
RoleNames == {"r1", "r2"}
\* "select" is in the taxonomy once upper-cased, "dictGet" is the verbatim
\* special case, "bogus" is in no list.
PrivNames == {"select", "dictGet", "bogus"}
Databases == {"d1", "d2", "d3"}
Tables == {"t1", "t2"}
\* The reconciled principal, and a second user that only ever appears as a
\* member of a quota.
Principal == "u1"
OtherUser == "u2"
QuotaNames == {"q1"}
ProfileNames == {"p1"}

Range(s) == {s[i] : i \in DOMAIN s}

\* All sequences over S of length at most n.
BSeq(S, n) == UNION {[1..k -> S] : k \in 0..n}

\* All duplicate-free sequences over S of length at most n.
ISeq(S, n) == {s \in BSeq(S, n) : \A i, j \in DOMAIN s : s[i] = s[j] => i = j}

\* ------------------------------------------------------------ statements
\* One SQL text sent through ch_connect.execute.
Stmt(kind, items, on, who, replace) ==
    [kind |-> kind, items |-> items, on |-> on, who |-> who, replace |-> replace]

\* SELECT count() FROM system.users WHERE name = '{grantee}'
user_exists_query(grantee) == Stmt("SELECT_USERS", <<>>, <<>>, grantee, FALSE)

\* SELECT granted_role_name FROM system.role_grants WHERE user_name = '{grantee}';
user_roles_query(grantee) == Stmt("SELECT_ROLE_GRANTS", <<>>, <<>>, grantee, FALSE)

\* REVOKE {role} from '{grantee}'
role_query(role, grantee) == Stmt("REVOKE_ROLE", <<role>>, <<>>, grantee, FALSE)

\* Variant: CREATE ROLE {role}, which the server rejects for a role it has.
create_role_query_plain(role) == Stmt("CREATE_ROLE_PLAIN", <<role>>, <<>>, "", FALSE)

\* CREATE ROLE IF NOT EXISTS {role}
create_role_query(role) == Stmt("CREATE_ROLE", <<role>>, <<>>, "", FALSE)

\* GRANT {', '.join(roles_list)} to '{grantee}' [WITH REPLACE OPTION]
grant_roles_query(roles_list, grantee, replace) ==
    Stmt("GRANT_ROLE", roles_list, <<>>, grantee, replace)

\* GRANT {', '.join(grants_list)} on {database}.{table} to '{grantee}' + sub_query
\* REVOKE {', '.join(grants_list)} on {database}.{table} from '{grantee}'
grant_query(revoke, grants_list, database, table, grantee, replace) ==
    Stmt(IF revoke THEN "REVOKE_PRIV" ELSE "GRANT_PRIV", grants_list,
         <<database, table>>, grantee, replace)

\* SELECT name FROM system.quotas WHERE has(apply_to_list, '{user}');
user_quotas_query(user) == Stmt("SELECT_USER_QUOTAS", <<>>, <<>>, user, FALSE)

\* SELECT apply_to_list FROM system.quotas WHERE name = '{quota}';
quota_has_users_query(quota) == Stmt("SELECT_QUOTA_USERS", <<>>, <<>>, quota, FALSE)

\* SELECT inherit_profile FROM system.settings_profile_elements WHERE user_name = '{user}';
user_profile_query(user) == Stmt("SELECT_PROFILES", <<>>, <<>>, user, FALSE)

\* CREATE USER {user} IDENTIFIED WITH sha256_password BY '{password}'
user_query(user, password) == Stmt("CREATE_USER", <<password>>, <<>>, user, FALSE)

\* ALTER QUOTA {quota} to {', '.join(quota_apply_users)}
quota_query(quota, quota_apply_users) ==
    Stmt("ALTER_QUOTA", quota_apply_users, <<>>, quota, FALSE)

\* ALTER USER {user} SETTINGS PROFILE {profile}
profile_query(user, profile) == Stmt("ALTER_PROFILE", <<profile>>, <<>>, user, FALSE)

\* GRANT {', '.join(roles)} to {user}
roles_query(roles, user) == Stmt("GRANT_ROLE", roles, <<>>, user, FALSE)

\* DROP USER {user}
drop_user_query(user) == Stmt("DROP_USER", <<>>, <<>>, user, FALSE)

ReadKinds ==
    {"SELECT_USERS", "SELECT_ROLE_GRANTS", "SELECT_USER_QUOTAS",
     "SELECT_QUOTA_USERS", "SELECT_PROFILES"}

IsRead(q) == q.kind \in ReadKinds

\* ---------------------------------------------------------------- server
\* What the server answers and does.  Privileges held are never read by
\* either module, so the server keeps no privilege table here; the gateway
\* log below records every statement it applied.
ServerAccepts(srv, q) ==
    CASE q.kind = "CREATE_ROLE" -> TRUE
      [] q.kind = "CREATE_ROLE_PLAIN" -> Range(q.items) \cap srv.roles = {}
      [] q.kind = "REVOKE_ROLE" -> q.who \in srv.users /\ Range(q.items) \subseteq srv.roles
      [] q.kind = "GRANT_ROLE" -> q.who \in srv.users /\ Range(q.items) \subseteq srv.roles
      [] q.kind \in {"GRANT_PRIV", "REVOKE_PRIV"} -> q.who \in srv.users \cup srv.roles
      [] q.kind = "CREATE_USER" -> q.who \notin srv.users
      [] q.kind = "DROP_USER" -> q.who \in srv.users
      [] q.kind = "ALTER_QUOTA" ->
            q.who \in DOMAIN srv.quotas /\ Range(q.items) \subseteq srv.users
      [] q.kind = "ALTER_PROFILE" -> q.who \in srv.users /\ q.items[1] \in srv.profiles
      [] OTHER -> TRUE

ServerApply(srv, q) ==
    CASE q.kind \in {"CREATE_ROLE", "CREATE_ROLE_PLAIN"} ->
            [srv EXCEPT !.roles = @ \cup Range(q.items)]
      [] q.kind = "REVOKE_ROLE" ->
            [srv EXCEPT !.role_grants = @ \ {<<q.who, r>> : r \in Range(q.items)}]
      [] q.kind = "GRANT_ROLE" ->
            [srv EXCEPT !.role_grants =
                (IF q.replace THEN {g \in @ : g[1] # q.who} ELSE @)
                    \cup {<<q.who, r>> : r \in Range(q.items)}]
      [] q.kind = "CREATE_USER" -> [srv EXCEPT !.users = @ \cup {q.who}]
      [] q.kind = "DROP_USER" ->
            [srv EXCEPT !.users = @ \ {q.who},
                        !.role_grants = {g \in @ : g[1] # q.who},
                        !.settings_profile = {g \in @ : g[1] # q.who},
                        !.quotas = [n \in DOMAIN @ |->
                                       SelectSeq(@[n], LAMBDA u : u # q.who)]]
      [] q.kind = "ALTER_QUOTA" -> [srv EXCEPT !.quotas[q.who] = q.items]
      [] q.kind = "ALTER_PROFILE" ->
            [srv EXCEPT !.settings_profile =
                {g \in @ : g[1] # q.who} \cup {<<q.who, q.items[1]>>}]
      [] OTHER -> srv

\* ------------------------------------------------------ clickhouse_grants
ch_user_exists(srv, grantee) == grantee \in srv.users

\* Variant: a user that does not exist is read as a user without roles.
get_user_roles_no_check(srv, grantee, roles_list) ==
    LET user_roles == {r \in RoleNames : <<grantee, r>> \in srv.role_grants}
    IN  [error |-> FALSE,
         user_roles |-> user_roles,
         user_has_roles |-> \A i \in DOMAIN roles_list : roles_list[i] \in user_roles]

\* error: the user does not exist and the function never reaches its return.
get_user_roles(srv, grantee, roles_list) ==
    LET user_roles == {r \in RoleNames : <<grantee, r>> \in srv.role_grants}
    IN  [error |-> ~ch_user_exists(srv, grantee),
         user_roles |-> user_roles,
         user_has_roles |-> \A i \in DOMAIN roles_list : roles_list[i] \in user_roles]

\* Variant: the held roles are revoked last-listed first.
revoke_roles_reversed(grantee, roles_list, user_roles) ==
    LET held == SelectSeq(roles_list, LAMBDA r : r \in user_roles)
    IN  [i \in DOMAIN held |-> role_query(held[Len(held) + 1 - i], grantee)]

\* Variant: revokes every listed role, held or not.
revoke_roles_all(grantee, roles_list, user_roles) ==
    [i \in DOMAIN roles_list |-> role_query(roles_list[i], grantee)]

\* The revoke branch: one REVOKE per listed role that is held, in list order.
revoke_roles_queries(grantee, roles_list, user_roles) ==
    LET held == SelectSeq(roles_list, LAMBDA r : r \in user_roles)
    IN  [i \in DOMAIN held |-> role_query(held[i], grantee)]

\* Variant: CREATE ROLE only for the listed roles the user does not hold.
grant_roles_queries_create_missing(grantee, roles_list, roles_init, replace_grants, revoke_grants, user_roles, user_has_roles) ==
    IF revoke_grants
    THEN revoke_roles_queries(grantee, roles_list, user_roles)
    ELSE (IF roles_init /\ ~user_has_roles
          THEN LET missing == SelectSeq(roles_list, LAMBDA r : r \notin user_roles)
               IN  [i \in DOMAIN missing |-> create_role_query(missing[i])]
          ELSE <<>>)
         \o (IF replace_grants
             THEN <<grant_roles_query(roles_list, grantee, TRUE)>>
             ELSE IF ~user_has_roles
                  THEN <<grant_roles_query(roles_list, grantee, FALSE)>>
                  ELSE <<>>)

\* Variant: with init_roles the roles are created whether or not all are held.
grant_roles_queries_ungated_create(grantee, roles_list, roles_init, replace_grants, revoke_grants, user_roles, user_has_roles) ==
    IF revoke_grants
    THEN revoke_roles_queries(grantee, roles_list, user_roles)
    ELSE (IF roles_init
          THEN [i \in DOMAIN roles_list |-> create_role_query(roles_list[i])]
          ELSE <<>>)
         \o (IF replace_grants
             THEN <<grant_roles_query(roles_list, grantee, TRUE)>>
             ELSE IF ~user_has_roles
                  THEN <<grant_roles_query(roles_list, grantee, FALSE)>>
                  ELSE <<>>)

\* Variant: the GRANT with the replace clause only when a listed role is not held.
grant_roles_queries_replace_gated(grantee, roles_list, roles_init, replace_grants, revoke_grants, user_roles, user_has_roles) ==
    IF revoke_grants
    THEN revoke_roles_queries(grantee, roles_list, user_roles)
    ELSE (IF roles_init /\ ~user_has_roles
          THEN [i \in DOMAIN roles_list |-> create_role_query(roles_list[i])]
          ELSE <<>>)
         \o (IF ~user_has_roles
             THEN <<grant_roles_query(roles_list, grantee, replace_grants)>>
             ELSE <<>>)

\* Variant: the GRANT of a replace call is rendered without the replace clause.
grant_roles_queries_no_replace_clause(grantee, roles_list, roles_init, replace_grants, revoke_grants, user_roles, user_has_roles) ==
    IF revoke_grants
    THEN revoke_roles_queries(grantee, roles_list, user_roles)
    ELSE (IF roles_init /\ ~user_has_roles
          THEN [i \in DOMAIN roles_list |-> create_role_query(roles_list[i])]
          ELSE <<>>)
         \o (IF replace_grants \/ ~user_has_roles
             THEN <<grant_roles_query(roles_list, grantee, FALSE)>>
             ELSE <<>>)

\* query_list as grant_roles_func builds it.
grant_roles_queries(grantee, roles_list, roles_init, replace_grants, revoke_grants, user_roles, user_has_roles) ==
    IF revoke_grants
    THEN revoke_roles_queries(grantee, roles_list, user_roles)
    ELSE (IF roles_init /\ ~user_has_roles
          THEN [i \in DOMAIN roles_list |-> create_role_query(roles_list[i])]
          ELSE <<>>)
         \o (IF replace_grants
             THEN <<grant_roles_query(roles_list, grantee, TRUE)>>
             ELSE IF ~user_has_roles
                  THEN <<grant_roles_query(roles_list, grantee, FALSE)>>
                  ELSE <<>>)

system_level_grants ==
    <<"CREATE FUNCTION", "DROP FUNCTION", "RELOAD DICTIONARY", "KILL QUERY",
      "MYSQL", "CLUSTER">>

database_level_grants == <<"CREATE DATABASE", "DROP DATABASE">>

table_level_grants ==
    <<"ALL", "SELECT", "SHOW", "dictGet", "INSERT", "UPDATE", "DELETE", "ALTER",
      "ALTER TABLE", "ALTER COLUMN", "ALTER CONSTRAINT", "ALTER INDEX",
      "ALTER VIEW", "ALTER TTL", "CREATE", "CREATE TABLE", "CREATE VIEW",
      "CREATE DICTIONARY", "DROP", "DROP TABLE", "DROP VIEW", "DROP DICTIONARY",
      "TRUNCATE", "OPTIMIZE">>

applicable_grants == system_level_grants \o database_level_grants \o table_level_grants

\* str.upper() on the privilege names in use.
upper(grant) ==
    CASE grant = "select" -> "SELECT"
      [] grant = "dictGet" -> "DICTGET"
      [] grant = "bogus" -> "BOGUS"
      [] OTHER -> grant

\* The test of one name in the validation loop.
grant_rejected(grant) ==
    upper(grant) \notin Range(applicable_grants) /\ grant # "dictGet"

\* Variant: only the first name of the list is tested.
grants_rejected_first(grants_list) ==
    grants_list # <<>> /\ grant_rejected(grants_list[1])

\* The validation loop: some name of the list is rejected.
grants_rejected(grants_list) ==
    \E i \in DOMAIN grants_list : grant_rejected(grants_list[i])

\* The inner loop over tables for one database.
\* Variant: replace_grants is tested first, so a call with both flags grants.
table_loop_replace_first(grantee, grants_list, db_idx, database, tables, replace_grants, revoke_grants) ==
    [t \in DOMAIN tables |->
        grant_query(revoke_grants /\ ~replace_grants, grants_list, database,
                    tables[t], grantee, replace_grants /\ db_idx = 0 /\ t - 1 = 0)]

table_loop(grantee, grants_list, db_idx, database, tables, replace_grants, revoke_grants) ==
    [t \in DOMAIN tables |->
        grant_query(revoke_grants, grants_list, database, tables[t], grantee,
                    ~revoke_grants /\ replace_grants /\ db_idx = 0 /\ t - 1 = 0)]

RECURSIVE database_loop(_, _, _, _, _, _, _)
\* The outer loop over databases, from position d on.
database_loop(grantee, grants_list, d, databases, tables, replace_grants, revoke_grants) ==
    IF d > Len(databases)
    THEN <<>>
    ELSE table_loop(grantee, grants_list, d - 1, databases[d], tables,
                    replace_grants, revoke_grants)
         \o database_loop(grantee, grants_list, d + 1, databases, tables,
                          replace_grants, revoke_grants)

\* Variant: the replace clause on every GRANT.
grants_queries_replace_all(grantee, grants_list, databases, tables, replace_grants, revoke_grants) ==
    LET ql == database_loop(grantee, grants_list, 1, databases, tables, FALSE,
                            revoke_grants)
    IN  [i \in DOMAIN ql |->
            [ql[i] EXCEPT !.replace = ~revoke_grants /\ replace_grants]]

\* Variant: tables in the outer loop, databases in the inner one.
grants_queries_column_major(grantee, grants_list, databases, tables, replace_grants, revoke_grants) ==
    LET n == Len(databases) * Len(tables)
    IN  [k \in 1..n |->
            LET t == (k - 1) \div Len(databases)
                d == (k - 1) % Len(databases)
            IN  grant_query(revoke_grants, grants_list, databases[d + 1],
                            tables[t + 1], grantee,
                            ~revoke_grants /\ replace_grants /\ k = 1)]

\* query_list as grants_func builds it once validation has passed.
grants_queries(grantee, grants_list, databases, tables, replace_grants, revoke_grants) ==
    database_loop(grantee, grants_list, 1, databases, tables, replace_grants,
                  revoke_grants)

\* Variant: a non-empty role list always selects the role path.
dispatch_roles_first(roles_list, grants_list) ==
    IF roles_list # <<>> THEN "grant_roles_func"
    ELSE IF grants_list # <<>> THEN "grants_func"
    ELSE "neither"

\* The if / elif / elif / else of main.
dispatch(roles_list, grants_list) ==
    IF roles_list # <<>> /\ grants_list # <<>> THEN "both"
    ELSE IF roles_list # <<>> THEN "grant_roles_func"
    ELSE IF grants_list # <<>> THEN "grants_func"
    ELSE "neither"

\* ---------------------------------------------------------------- results
\* What the module hands back to Ansible.  has_run_queries tells whether the
\* key run_queries is in the result at all.
NoResult ==
    [failed |-> FALSE, changed |-> FALSE, has_run_queries |-> FALSE,
     run_queries |-> <<>>, query |-> <<>>, msg |-> "none"]

\* module.fail_json(msg): failed, and nothing of return_list.
fail_json(msg) ==
    [failed |-> TRUE, changed |-> FALSE, has_run_queries |-> FALSE,
     run_queries |-> <<>>, query |-> <<>>, msg |-> msg]

\* module.exit_json(**return_list) of the functions that return run_queries.
exit_json(failed, changed, run_queries, msg) ==
    [failed |-> failed, changed |-> changed, has_run_queries |-> TRUE,
     run_queries |-> run_queries, query |-> <<>>, msg |-> msg]

EmptyParams == [grantee_name |-> ""]

VARIABLES
    server,      \* users, roles, role grants, quotas, profiles of the server
    pc,          \* "idle", "exec" (inside the execution loop), "done"
    prog,        \* the module that is running or ran last
    fn,          \* the reconciliation function main selected, or "none"
    params,      \* module.params of the call
    query_list,  \* the statements the function planned
    gateway,     \* every ch_connect.execute of the call, in order, with its outcome
    result,      \* the result of the finished call
    repeat,      \* the call repeats the previous, successful call unchanged
    prev_changed, \* the changed flag of the call before this one, if there was one
    external     \* the roles another client created while the call was running

vars ==
    <<server, pc, prog, fn, params, query_list, gateway, result, repeat, prev_changed,
      external>>

\* The mutating statements sent so far, and those the server applied.
Sent(log) == SelectSeq(log, LAMBDA e : ~IsRead(e.q))
Executed(log) ==
    LET ok == SelectSeq(log, LAMBDA e : ~IsRead(e.q) /\ e.ok)
    IN  [i \in DOMAIN ok |-> ok[i].q]
Reads(log) == SelectSeq(log, LAMBDA e : IsRead(e.q))

\* The observation queries `reads`, the rf-th of which fails (0: none does).
ReadLog(reads, rf) ==
    [i \in 1..(IF rf = 0 THEN Len(reads) ELSE rf) |-> [q |-> reads[i], ok |-> i # rf]]

\* The state after everything a call does before its execution loop.
Begin(program, p, f, log, ql, res) ==
    /\ pc \in {"idle", "done"}
    /\ prog' = program
    /\ params' = p
    /\ fn' = f
    /\ gateway' = log
    /\ query_list' = ql
    /\ result' = res
    /\ pc' = IF res = NoResult THEN "exec" ELSE "done"
    /\ repeat' = (pc = "done" /\ prog = program /\ params = p /\ ~result.failed)
    /\ prev_changed' = (pc = "done" /\ result.changed)
    /\ external' = {}
    /\ UNCHANGED server

\* module.params of clickhouse_grants.  A parameter the selected path never
\* reads stays at its argument_spec default.
GrantsDefaults ==
    [grantee_name |-> Principal, grants |-> <<>>, databases |-> <<"default">>,
     tables |-> <<"*">>, grant_roles |-> <<>>, init_roles |-> FALSE,
     revoke_grants |-> FALSE, replace_grants |-> FALSE]

RoleParams ==
    {[GrantsDefaults EXCEPT !.grant_roles = r, !.init_roles = i,
                            !.revoke_grants = v, !.replace_grants = x] :
        r \in BSeq(RoleNames, MaxRoles) \ {<<>>}, i \in BOOLEAN, v \in BOOLEAN,
        x \in BOOLEAN}

PrivParams ==
    {[GrantsDefaults EXCEPT !.grants = g, !.databases = d, !.tables = t,
                            !.revoke_grants = v, !.replace_grants = x] :
        g \in BSeq(PrivNames, MaxGrants) \ {<<>>}, d \in ISeq(Databases, MaxDbs),
        t \in ISeq(Tables, MaxTables), v \in BOOLEAN, x \in BOOLEAN}

BothParams ==
    {[GrantsDefaults EXCEPT !.grant_roles = r, !.grants = g, !.revoke_grants = v,
                            !.replace_grants = x] :
        r \in BSeq(RoleNames, 1) \ {<<>>}, g \in BSeq(PrivNames, 1) \ {<<>>},
        v \in BOOLEAN, x \in BOOLEAN}

NeitherParams ==
    {[GrantsDefaults EXCEPT !.init_roles = i, !.revoke_grants = v,
                            !.replace_grants = x] :
        i \in BOOLEAN, v \in BOOLEAN, x \in BOOLEAN}

GrantsParams == RoleParams \cup PrivParams \cup BothParams \cup NeitherParams

\* grant_roles_func up to its execution loop, as main runs it.
grant_roles_func(p, rf) ==
    LET grantee == p.grantee_name
        exists == ch_user_exists(server, grantee)
        reads == <<user_exists_query(grantee)>>
                 \o (IF exists THEN <<user_roles_query(grantee)>> ELSE <<>>)
        obs == get_user_roles(server, grantee, p.grant_roles)
        ql == grant_roles_queries(grantee, p.grant_roles, p.init_roles,
                                  p.replace_grants, p.revoke_grants,
                                  obs.user_roles, obs.user_has_roles)
    IN  /\ rf <= Len(reads)
        /\ IF rf > 0
           THEN Begin("clickhouse_grants", p, "grant_roles_func", ReadLog(reads, rf),
                      <<>>, fail_json("server"))
           ELSE IF obs.error
           THEN Begin("clickhouse_grants", p, "grant_roles_func", ReadLog(reads, 0),
                      <<>>, fail_json("name 'module' is not defined"))
           ELSE Begin("clickhouse_grants", p, "grant_roles_func", ReadLog(reads, 0), ql,
                      IF ql = <<>> THEN exit_json(FALSE, FALSE, ql, "") ELSE NoResult)

\* grants_func up to its execution loop, as main runs it.
grants_func(p) ==
    LET ql == grants_queries(p.grantee_name, p.grants, p.databases, p.tables,
                             p.replace_grants, p.revoke_grants)
    IN  IF grants_rejected(p.grants)
        THEN Begin("clickhouse_grants", p, "grants_func", <<>>, <<>>,
                   exit_json(TRUE, FALSE, <<>>, "not in applicable grants"))
        ELSE Begin("clickhouse_grants", p, "grants_func", <<>>, ql,
                   IF ql = <<>> THEN exit_json(FALSE, FALSE, ql, "") ELSE NoResult)

\* The module.params a run can have: any of `all` for a new task, the same
\* ones again when the task that just ended is run once more.
Invocations(program, all) ==
    IF pc = "idle" THEN all ELSE IF prog = program THEN {params} ELSE {}

\* main of clickhouse_grants.py from the connection on.  (The exits before
\* it, check mode and a missing clickhouse-driver, reach no gateway and
\* select no function.)
clickhouse_grants_main ==
    \E p \in Invocations("clickhouse_grants", GrantsParams), rf \in 0..2 :
        LET d == dispatch(p.grant_roles, p.grants)
        IN  CASE d = "both" ->
                    /\ rf = 0
                    /\ Begin("clickhouse_grants", p, "none", <<>>, <<>>,
                             fail_json("Only one of parameters 'grant_roles' OR 'grants' must be defined."))
              [] d = "grant_roles_func" -> grant_roles_func(p, rf)
              [] d = "grants_func" -> rf = 0 /\ grants_func(p)
              [] OTHER ->
                    /\ rf = 0
                    /\ Begin("clickhouse_grants", p, "none", <<>>, <<>>,
                             fail_json("No any grants or roles are defined"))

\* ------------------------------------------------------- clickhouse_users
ch_user_roles(srv, user, roles) ==
    LET user_roles == {r \in RoleNames : <<user, r>> \in srv.role_grants}
    IN  [user_roles |-> user_roles,
         user_has_roles |-> \A i \in DOMAIN roles : roles[i] \in user_roles]

ch_user_profiles(srv, user, profile) ==
    LET user_profiles == {f \in ProfileNames : <<user, f>> \in srv.settings_profile}
    IN  [user_profiles |-> user_profiles, user_has_profile |-> profile \in user_profiles]

\* Variant: the apply_to_list read from the server is not carried over.
ch_user_quotas_user_only(srv, user, quota) ==
    LET user_quotas == {n \in DOMAIN srv.quotas : user \in Range(srv.quotas[n])}
    IN  [user_quotas |-> user_quotas,
         user_has_quota |-> quota \in user_quotas,
         quota_applied_users |-> <<user>>]

ch_user_quotas(srv, user, quota) ==
    LET user_quotas == {n \in DOMAIN srv.quotas : user \in Range(srv.quotas[n])}
        raw_quota_users == IF quota \in DOMAIN srv.quotas THEN srv.quotas[quota] ELSE <<>>
    IN  [user_quotas |-> user_quotas,
         user_has_quota |-> quota \in user_quotas,
         quota_applied_users |-> Append(raw_quota_users, user)]

\* The observation queries of create_update_user, in the order it sends them.
create_update_user_reads(user, roles, quota, profile) ==
    <<user_exists_query(user)>>
    \o (IF quota # "" THEN <<user_quotas_query(user), quota_has_users_query(quota)>>
        ELSE <<>>)
    \o (IF profile # "" THEN <<user_profile_query(user)>> ELSE <<>>)
    \o (IF roles # <<>> THEN <<user_roles_query(user)>> ELSE <<>>)

\* The four independent decisions of create_update_user.
create_user_part(srv, user, password) ==
    IF ~ch_user_exists(srv, user) THEN <<user_query(user, password)>> ELSE <<>>

\* Variant: the quota is set only for a user that is being created.
quota_part_new_user_only(srv, user, quota) ==
    IF quota # "" /\ ~ch_user_exists(srv, user)
          /\ ~ch_user_quotas(srv, user, quota).user_has_quota
    THEN <<quota_query(quota, ch_user_quotas(srv, user, quota).quota_applied_users)>>
    ELSE <<>>

quota_part(srv, user, quota) ==
    IF quota # "" /\ ~ch_user_quotas(srv, user, quota).user_has_quota
    THEN <<quota_query(quota, ch_user_quotas(srv, user, quota).quota_applied_users)>>
    ELSE <<>>

profile_part(srv, user, profile) ==
    IF profile # "" /\ ~ch_user_profiles(srv, user, profile).user_has_profile
    THEN <<profile_query(user, profile)>>
    ELSE <<>>

\* Variant: the roles are granted whether or not they are all held.
roles_part_always(srv, user, roles) ==
    IF roles # <<>> THEN <<roles_query(roles, user)>> ELSE <<>>

roles_part(srv, user, roles) ==
    IF roles # <<>> /\ ~ch_user_roles(srv, user, roles).user_has_roles
    THEN <<roles_query(roles, user)>>
    ELSE <<>>

\* Variant: the profile is set before the quota.
create_update_user_profile_first(srv, user, password, roles, quota, profile) ==
    create_user_part(srv, user, password) \o profile_part(srv, user, profile)
    \o quota_part(srv, user, quota) \o roles_part(srv, user, roles)

\* query_list as create_update_user builds it.
create_update_user_queries(srv, user, password, roles, quota, profile) ==
    create_user_part(srv, user, password) \o quota_part(srv, user, quota)
    \o profile_part(srv, user, profile) \o roles_part(srv, user, roles)

\* module.params of clickhouse_users.
UsersParams ==
    [user_name : {Principal}, user_password : {"pw"},
     user_roles : BSeq(RoleNames, MaxRoles), user_quota : {""} \cup QuotaNames,
     user_profile : {""} \cup ProfileNames,
     user_state : {"present", "absent", "latest"}]

\* Variant: a missing user is created as soon as the existence check has
\* answered, and quota, profile and roles are observed after that.
create_update_user_eager(p, rf) ==
    LET reads == create_update_user_reads(p.user_name, p.user_roles, p.user_quota,
                                          p.user_profile)
        ql == create_update_user_queries(server, p.user_name, p.user_password,
                                         p.user_roles, p.user_quota, p.user_profile)
    IN  /\ rf <= Len(reads)
        /\ IF rf > 0
           THEN Begin("clickhouse_users", p, "create_update_user", ReadLog(reads, rf),
                      <<>>, fail_json("server"))
           ELSE IF ~ch_user_exists(server, p.user_name) /\ Len(ql) > 1
           THEN /\ pc \in {"idle", "done"}
                /\ server' = ServerApply(server, ql[1])
                /\ gateway' = <<[q |-> reads[1], ok |-> TRUE], [q |-> ql[1], ok |-> TRUE]>>
                                 \o ReadLog(Tail(reads), 0)
                /\ prog' = "clickhouse_users"
                /\ params' = p
                /\ fn' = "create_update_user"
                /\ query_list' = ql
                /\ result' = NoResult
                /\ pc' = "exec"
                /\ repeat' = (pc = "done" /\ prog = "clickhouse_users" /\ params = p
                                 /\ ~result.failed)
                /\ prev_changed' = (pc = "done" /\ result.changed)
                /\ external' = {}
           ELSE Begin("clickhouse_users", p, "create_update_user", ReadLog(reads, 0), ql,
                      IF ql = <<>> THEN exit_json(FALSE, FALSE, ql, "") ELSE NoResult)

\* create_update_user up to its execution loop, as main runs it.
create_update_user(p, rf) ==
    LET reads == create_update_user_reads(p.user_name, p.user_roles, p.user_quota,
                                          p.user_profile)
        ql == create_update_user_queries(server, p.user_name, p.user_password,
                                         p.user_roles, p.user_quota, p.user_profile)
    IN  /\ rf <= Len(reads)
        /\ IF rf > 0
           THEN Begin("clickhouse_users", p, "create_update_user", ReadLog(reads, rf),
                      <<>>, fail_json("server"))
           ELSE Begin("clickhouse_users", p, "create_update_user", ReadLog(reads, 0), ql,
                      IF ql = <<>> THEN exit_json(FALSE, FALSE, ql, "") ELSE NoResult)

\* Variant: DROP USER is sent whether or not the user exists.
delete_user_always(p, rf) ==
    LET reads == <<user_exists_query(p.user_name)>>
    IN  /\ rf <= 1
        /\ IF rf > 0
           THEN Begin("clickhouse_users", p, "delete_user", ReadLog(reads, rf), <<>>,
                      fail_json("traceback"))
           ELSE Begin("clickhouse_users", p, "delete_user", ReadLog(reads, 0),
                      <<drop_user_query(p.user_name)>>, NoResult)

\* delete_user up to its DROP USER, as main runs it (outside any try).
delete_user(p, rf) ==
    LET reads == <<user_exists_query(p.user_name)>>
    IN  /\ rf <= 1
        /\ IF rf > 0
           THEN Begin("clickhouse_users", p, "delete_user", ReadLog(reads, rf), <<>>,
                      fail_json("traceback"))
           ELSE IF ~ch_user_exists(server, p.user_name)
           THEN Begin("clickhouse_users", p, "delete_user", ReadLog(reads, 0), <<>>,
                      [NoResult EXCEPT !.msg = ""])
           ELSE Begin("clickhouse_users", p, "delete_user", ReadLog(reads, 0),
                      <<drop_user_query(p.user_name)>>, NoResult)

\* main of clickhouse_users.py from the connection on.
clickhouse_users_main ==
    \E p \in Invocations("clickhouse_users", UsersParams), rf \in 0..5 :
        CASE p.user_state = "present" -> create_update_user(p, rf)
          [] p.user_state = "absent" -> delete_user(p, rf)
          [] OTHER ->
                /\ rf = 0
                /\ Begin("clickhouse_users", p, "none", <<>>, <<>>,
                         fail_json("Only states are supported by this module"))

\* ------------------------------------------------------- execution loop
\* The next statement of  [ch_connect.execute(query) for query in query_list].
NextQuery == query_list[Len(Sent(gateway)) + 1]

\* What the caller makes of a completed loop.
loop_result ==
    CASE fn = "grants_func" -> exit_json(FALSE, TRUE, query_list, "GRANTS EXECUTED")
      [] fn = "delete_user" ->
            [failed |-> FALSE, changed |-> TRUE, has_run_queries |-> FALSE,
             run_queries |-> <<>>, query |-> query_list, msg |-> ""]
      [] OTHER -> exit_json(FALSE, TRUE, query_list, "")

\* The server applies the statement; after the last one the function returns.
execute_ok ==
    /\ pc = "exec"
    /\ ServerAccepts(server, NextQuery)
    /\ server' = ServerApply(server, NextQuery)
    /\ gateway' = Append(gateway, [q |-> NextQuery, ok |-> TRUE])
    /\ IF Len(Sent(gateway)) + 1 = Len(query_list)
       THEN pc' = "done" /\ result' = loop_result
       ELSE pc' = "exec" /\ UNCHANGED result
    /\ UNCHANGED <<prog, fn, params, query_list, repeat, prev_changed, external>>

\* Variant: a failed statement is skipped and the loop goes on.
execute_fail_continue ==
    /\ pc = "exec"
    /\ gateway' = Append(gateway, [q |-> NextQuery, ok |-> FALSE])
    /\ IF Len(Sent(gateway)) + 1 = Len(query_list)
       THEN pc' = "done" /\ result' = loop_result
       ELSE pc' = "exec" /\ UNCHANGED result
    /\ UNCHANGED <<server, prog, fn, params, query_list, repeat, prev_changed, external>>

\* The statement raises (the server rejects it, or the connection fails): the
\* exception leaves the loop and the function, and main reports the failure.
execute_fail ==
    /\ pc = "exec"
    /\ gateway' = Append(gateway, [q |-> NextQuery, ok |-> FALSE])
    /\ pc' = "done"
    /\ result' = fail_json(IF fn = "delete_user" THEN "traceback" ELSE "server")
    /\ UNCHANGED <<server, prog, fn, params, query_list, repeat, prev_changed, external>>

\* The module process has ended and its result is with the caller; the next
\* task may be any.
module_exit ==
    /\ pc = "done"
    /\ pc' = "idle"
    /\ prog' = "none"
    /\ fn' = "none"
    /\ params' = EmptyParams
    /\ query_list' = <<>>
    /\ gateway' = <<>>
    /\ result' = NoResult
    /\ repeat' = FALSE
    /\ prev_changed' = FALSE
    /\ external' = {}
    /\ UNCHANGED server

\* Another client of the server creates a role while a call is between its
\* observation and the end of its execution loop.
other_actor_creates_role ==
    /\ pc = "exec"
    /\ \E r \in RoleNames \ server.roles :
          /\ server' = [server EXCEPT !.roles = @ \cup {r}]
          /\ external' = external \cup {r}
    /\ UNCHANGED <<pc, prog, fn, params, query_list, gateway, result, repeat, prev_changed>>

\* ------------------------------------------------------------------ specs

\* Only existing users hold roles, profiles and quota memberships, and only
\* existing roles and profiles are held.
ServerConsistent(s) ==
    /\ \A g \in s.role_grants : g[1] \in s.users /\ g[2] \in s.roles
    /\ \A g \in s.settings_profile : g[1] \in s.users /\ g[2] \in s.profiles
    /\ \A n \in DOMAIN s.quotas : Range(s.quotas[n]) \subseteq s.users

\* Servers of the clickhouse_grants runs: the principal may or may not exist,
\* any roles may exist, and only an existing principal holds roles.
GrantsServers ==
    {[users |-> us \cup {OtherUser}, roles |-> rs,
      role_grants |-> {<<Principal, r>> : r \in hs},
      quotas |-> <<>>, profiles |-> {}, settings_profile |-> {}] :
        us \in SUBSET {Principal}, rs \in SUBSET RoleNames, hs \in SUBSET RoleNames}

Init ==
    /\ server \in {s \in GrantsServers : ServerConsistent(s)}
    /\ pc = "idle"
    /\ prog = "none"
    /\ fn = "none"
    /\ params = EmptyParams
    /\ query_list = <<>>
    /\ gateway = <<>>
    /\ result = NoResult
    /\ repeat = FALSE
    /\ prev_changed = FALSE
    /\ external = {}

Next == clickhouse_grants_main \/ execute_ok \/ execute_fail \/ module_exit

\* The runs of clickhouse_grants.
Spec == Init /\ [][Next]_vars

NextRace == Next \/ other_actor_creates_role

\* The runs of clickhouse_grants on a server where other clients create roles.
SpecRace == Init /\ [][NextRace]_vars

\* Servers of the clickhouse_users runs: as above, with quotas (each with its
\* apply_to_list over the existing users) and settings profiles.
UsersServers ==
    {[users |-> us \cup {OtherUser}, roles |-> rs,
      role_grants |-> {<<Principal, r>> : r \in hs},
      quotas |-> qs, profiles |-> fs,
      settings_profile |-> {<<Principal, f>> : f \in as}] :
        us \in SUBSET {Principal}, rs \in SUBSET RoleNames, hs \in SUBSET RoleNames,
        qs \in UNION {[S -> ISeq({Principal, OtherUser}, 2)] : S \in SUBSET QuotaNames},
        fs \in SUBSET ProfileNames, as \in SUBSET ProfileNames}

InitUsers ==
    /\ server \in {s \in UsersServers : ServerConsistent(s)}
    /\ pc = "idle"
    /\ prog = "none"
    /\ fn = "none"
    /\ params = EmptyParams
    /\ query_list = <<>>
    /\ gateway = <<>>
    /\ result = NoResult
    /\ repeat = FALSE
    /\ prev_changed = FALSE
    /\ external = {}

NextUsers == clickhouse_users_main \/ execute_ok \/ execute_fail \/ module_exit

\* The runs of clickhouse_users.
SpecUsers == InitUsers /\ [][NextUsers]_vars

\* A server on which the principal has not been created yet: role r1, quota
\* q1 (applied to the other user) and profile p1 are there, role r2 is not.
FreshServer ==
    [users |-> {OtherUser}, roles |-> {"r1"}, role_grants |-> {},
     quotas |-> [n \in QuotaNames |-> <<OtherUser>>], profiles |-> ProfileNames,
     settings_profile |-> {}]

InitAll ==
    /\ server = FreshServer
    /\ pc = "idle"
    /\ prog = "none"
    /\ fn = "none"
    /\ params = EmptyParams
    /\ query_list = <<>>
    /\ gateway = <<>>
    /\ result = NoResult
    /\ repeat = FALSE
    /\ prev_changed = FALSE
    /\ external = {}

NextAll ==
    \/ clickhouse_grants_main
    \/ clickhouse_users_main
    \/ execute_ok
    \/ execute_fail
    \/ module_exit

\* Both modules run, in any order, against one server.
SpecAll == InitAll /\ [][NextAll]_vars

\* ------------------------------------------------------------ properties
\* The names of PrivNames that the taxonomy knows.
KnownPrivs == {"select", "dictGet"}

AllKnown(grants_list) == \A i \in DOMAIN grants_list : grants_list[i] \in KnownPrivs

\* The step is the start of a call (dispatch, observation, planning).
CallStarts == pc \in {"idle", "done"} /\ pc' \in {"exec", "done"}

\* The statements sent are the first ones of query_list, in its order.
SentInOrder ==
    /\ Len(Sent(gateway)) <= Len(query_list)
    /\ \A i \in DOMAIN Sent(gateway) : Sent(gateway)[i].q = query_list[i]

C2_ReplaceSingleShot ==
    (/\ fn = "grants_func"
     /\ ~params.revoke_grants
     /\ params.replace_grants
     /\ AllKnown(params.grants)
     /\ Len(params.databases) * Len(params.tables) >= 2)
    => /\ Len(query_list) = Len(params.databases) * Len(params.tables)
       /\ {i \in DOMAIN query_list : query_list[i].replace} = {1}
       /\ query_list[1].kind = "GRANT_PRIV"
       /\ query_list[1].on = <<params.databases[1], params.tables[1]>>
       /\ Sent(gateway) # <<>> => Sent(gateway)[1].q = query_list[1]

C2_Witness ==
    /\ pc = "done"
    /\ fn = "grants_func"
    /\ ~params.revoke_grants
    /\ params.replace_grants
    /\ ~result.failed
    /\ Len(query_list) = 4
    /\ Executed(gateway) = query_list

\* C3: a grants list with a name outside the taxonomy, at any position, ends
\* the call at once in a failure whose run_queries is empty; no statement is
\* planned and the gateway is never called.
C3_PrivilegeValidation ==
    (fn = "grants_func" /\ ~AllKnown(params.grants))
    => /\ pc = "done"
       /\ result.failed
       /\ result.has_run_queries
       /\ result.run_queries = <<>>
       /\ ~result.changed
       /\ query_list = <<>>
       /\ gateway = <<>>

C3_Witness ==
    /\ pc = "done"
    /\ fn = "grants_func"
    /\ result.failed
    /\ Len(params.grants) = 2
    /\ params.grants[1] \in KnownPrivs
    /\ params.grants[2] \notin KnownPrivs
    /\ Len(params.databases) * Len(params.tables) >= 2

RoleKinds == {"SELECT_USERS", "SELECT_ROLE_GRANTS", "REVOKE_ROLE", "CREATE_ROLE", "GRANT_ROLE"}
PrivKinds == {"GRANT_PRIV", "REVOKE_PRIV"}

\* C4: with both grant_roles and grants non-empty, or both empty, the call
\* ends in a configuration failure with no function selected, no statement
\* planned and no query of any kind sent; otherwise exactly the function of
\* the non-empty parameter runs and only its kinds of query reach the gateway.
C4_ExclusiveMode ==
    prog = "clickhouse_grants"
    => IF (params.grant_roles # <<>>) = (params.grants # <<>>)
       THEN /\ pc = "done"
            /\ fn = "none"
            /\ result.failed
            /\ ~result.changed
            /\ query_list = <<>>
            /\ gateway = <<>>
       ELSE /\ fn = (IF params.grant_roles # <<>> THEN "grant_roles_func" ELSE "grants_func")
            /\ \A i \in DOMAIN gateway :
                  gateway[i].q.kind \in (IF fn = "grant_roles_func" THEN RoleKinds ELSE PrivKinds)
            /\ \A i \in DOMAIN query_list :
                  query_list[i].kind \in (IF fn = "grant_roles_func" THEN RoleKinds ELSE PrivKinds)

C4_Witness ==
    /\ pc = "done"
    /\ prog = "clickhouse_grants"
    /\ params.grant_roles # <<>>
    /\ params.grants # <<>>
    /\ result.failed
    /\ gateway = <<>>

\* C5: a privilege call whose names are all known plans one statement per
\* (database, table) pair, |D| x |T| in all, all tables of the first database
\* in list order, then those of the next; they are sent in that order, and
\* all of them are executed when none fails.
C5_RowMajorOrder ==
    (fn = "grants_func" /\ AllKnown(params.grants))
    => LET D == params.databases
           T == params.tables
       IN  /\ Len(query_list) = Len(D) * Len(T)
           /\ \A d \in DOMAIN D : \A t \in DOMAIN T :
                 LET q == query_list[(d - 1) * Len(T) + t]
                 IN  /\ q.on = <<D[d], T[t]>>
                     /\ q.kind = (IF params.revoke_grants THEN "REVOKE_PRIV" ELSE "GRANT_PRIV")
                     /\ q.items = params.grants
                     /\ q.who = params.grantee_name
           /\ SentInOrder
           /\ (pc = "done" /\ ~result.failed) => Executed(gateway) = query_list

C5_Witness ==
    /\ pc = "done"
    /\ fn = "grants_func"
    /\ params.revoke_grants
    /\ params.databases = <<"d2", "d1">>
    /\ params.tables = <<"t1", "t2">>
    /\ ~result.failed
    /\ Executed(gateway) = query_list
    /\ Len(query_list) = 4

\* C6: a role call with revoke, started when the principal exists and holds
\* none of the listed roles, plans no statement, sends none and ends at once
\* with changed = false.
C6_RevokeSafety ==
    [][(/\ CallStarts
        /\ fn' = "grant_roles_func"
        /\ params'.revoke_grants
        /\ params'.grantee_name \in server.users
        /\ \A i \in DOMAIN params'.grant_roles :
              <<params'.grantee_name, params'.grant_roles[i]>> \notin server.role_grants)
       => (/\ query_list' = <<>>
           /\ Sent(gateway') = <<>>
           /\ pc' = "done"
           /\ ~result'.changed)]_vars

C6_Witness ==
    /\ pc = "done"
    /\ fn = "grant_roles_func"
    /\ params.revoke_grants
    /\ params.grant_roles = <<"r1">>
    /\ server.role_grants = {<<Principal, "r2">>}
    /\ ~result.failed
    /\ ~result.changed
    /\ Len(Reads(gateway)) = 2
    /\ Sent(gateway) = <<>>

\* Position of a statement kind in the order CreateUser, AlterQuota,
\* AlterProfile, GrantRoles.
LifecycleRank(kind) ==
    CASE kind = "CREATE_USER" -> 1
      [] kind = "ALTER_QUOTA" -> 2
      [] kind = "ALTER_PROFILE" -> 3
      [] kind = "GRANT_ROLE" -> 4
      [] OTHER -> 0

\* C7: the statements create_update_user plans are, in this order and each at
\* most once, CreateUser, AlterQuota, AlterProfile, GrantRoles, and they are
\* sent in that order; a call started when the principal is absent, with a
\* quota, a profile and roles given, plans all four.
C7_LifecycleOrder ==
    /\ [](fn = "create_update_user"
          => /\ \A i \in DOMAIN query_list : LifecycleRank(query_list[i].kind) > 0
             /\ \A i, j \in DOMAIN query_list :
                   i < j => LifecycleRank(query_list[i].kind) < LifecycleRank(query_list[j].kind)
             /\ SentInOrder
             /\ (pc = "done" /\ ~result.failed) => Executed(gateway) = query_list)
    /\ [][(/\ CallStarts
           /\ fn' = "create_update_user"
           /\ ~result'.failed
           /\ params'.user_name \notin server.users
           /\ params'.user_quota # ""
           /\ params'.user_profile # ""
           /\ params'.user_roles # <<>>)
          => (/\ Len(query_list') = 4
              /\ \A i \in 1..4 : LifecycleRank(query_list'[i].kind) = i)]_vars

C7_Witness ==
    /\ pc = "done"
    /\ fn = "create_update_user"
    /\ ~result.failed
    /\ Len(query_list) = 4
    /\ Executed(gateway) = query_list
    /\ query_list[1].kind = "CREATE_USER"

\* C8: the result of every finished call has changed = true exactly when the
\* server executed at least one mutating statement of the call.
C8_ChangedIffExecuted ==
    pc = "done" => (result.changed <=> Executed(gateway) # <<>>)

\* C9: each planned statement is sent once and in plan order; a statement
\* that fails is the last one sent and the call then ends in a failure; a
\* call that ends without failure has sent every statement; and the failing
\* step leaves the server as the earlier statements made it.
C9_FailFastInOrder ==
    /\ [](/\ SentInOrder
          /\ \A i \in DOMAIN Sent(gateway) :
                ~Sent(gateway)[i].ok
                => (i = Len(Sent(gateway)) /\ pc = "done" /\ result.failed)
          /\ pc = "exec" => Len(Sent(gateway)) < Len(query_list)
          /\ (pc = "done" /\ ~result.failed) => Executed(gateway) = query_list)
    /\ [][(pc = "exec" /\ Sent(gateway') # <<>>
           /\ ~Sent(gateway')[Len(Sent(gateway'))].ok)
          => (server' = server /\ Executed(gateway') = Executed(gateway))]_vars

C9_Witness ==
    /\ pc = "done"
    /\ fn = "create_update_user"
    /\ result.failed
    /\ Len(query_list) = 4
    /\ Len(Sent(gateway)) = 2
    /\ Sent(gateway)[1].ok
    /\ ~Sent(gateway)[2].ok
    /\ Sent(gateway)[1].q.kind = "CREATE_USER"
    /\ params.user_name \in server.users

\* C10: a call that fails after some of its statements were executed returns
\* a failure that carries the list of the statements already executed.
C10_PartialReported ==
    (pc = "done" /\ result.failed /\ Executed(gateway) # <<>>)
    => (result.has_run_queries /\ result.run_queries = Executed(gateway))

\* C11: a grant_roles_func call for a grantee that is not on the server ends
\* in failure with no statement planned or sent; the role table is not read,
\* so the missing grantee is never taken for a user without roles.
C11_PrincipalNotFound ==
    [][(/\ CallStarts
        /\ fn' = "grant_roles_func"
        /\ params'.grantee_name \notin server.users)
       => (/\ pc' = "done"
           /\ result'.failed
           /\ ~result'.changed
           /\ query_list' = <<>>
           /\ Sent(gateway') = <<>>
           /\ \A i \in DOMAIN gateway' : gateway'[i].q.kind # "SELECT_ROLE_GRANTS"
           /\ server' = server)]_vars

C11_Witness ==
    /\ pc = "done"
    /\ fn = "grant_roles_func"
    /\ Principal \notin server.users
    /\ params.grant_roles = <<"r1", "r2">>
    /\ params.init_roles
    /\ gateway = <<[q |-> user_exists_query(Principal), ok |-> TRUE]>>
    /\ result.failed
    /\ result.msg = "name 'module' is not defined"

\* The roles `user` holds on `srv`.
Held(srv, user) == {r \in RoleNames : <<user, r>> \in srv.role_grants}

\* The statements of the given kinds in ql, in its order.
OfKinds(ql, kinds) == SelectSeq(ql, LAMBDA q : q.kind \in kinds)

\* The step starts a grant_roles_func call that gets as far as planning.
RoleCallPlans ==
    /\ CallStarts
    /\ fn' = "grant_roles_func"
    /\ params'.grantee_name \in server.users
    /\ ~result'.failed

\* C12 as stated: in a non-revoke role call with init_roles and some listed
\* role not held, CREATE ROLE is planned for exactly the listed roles that
\* are not held, and for no role the grantee holds.
C12_CreateOnlyMissing ==
    [][(/\ RoleCallPlans
        /\ ~params'.revoke_grants
        /\ params'.init_roles
        /\ ~(Range(params'.grant_roles) \subseteq Held(server, params'.grantee_name)))
       => ({q.items[1] : q \in Range(OfKinds(query_list', {"CREATE_ROLE"}))}
              = Range(params'.grant_roles) \ Held(server, params'.grantee_name))]_vars

\* C12 amended: in such a call CREATE ROLE IF NOT EXISTS is planned for every
\* listed role, held or not, in list order, ahead of the GRANT; a non-revoke
\* call without init_roles, or with every listed role held, plans none.
C12_CreateEveryListed ==
    [][(RoleCallPlans /\ ~params'.revoke_grants)
       => IF /\ params'.init_roles
             /\ ~(Range(params'.grant_roles) \subseteq Held(server, params'.grantee_name))
          THEN /\ OfKinds(query_list', {"CREATE_ROLE"})
                     = [i \in DOMAIN params'.grant_roles |->
                            create_role_query(params'.grant_roles[i])]
               /\ SubSeq(query_list', 1, Len(params'.grant_roles))
                     = OfKinds(query_list', {"CREATE_ROLE"})
          ELSE OfKinds(query_list', {"CREATE_ROLE"}) = <<>>]_vars

\* r1 is held, r2 is not: CREATE ROLE r1 was planned and has been executed.
C12_Witness ==
    /\ pc = "exec"
    /\ fn = "grant_roles_func"
    /\ params.init_roles
    /\ ~params.replace_grants
    /\ Held(server, Principal) = {"r1"}
    /\ query_list = <<create_role_query("r1"), create_role_query("r2"),
                      grant_roles_query(<<"r1", "r2">>, Principal, FALSE)>>
    /\ Executed(gateway) = <<create_role_query("r1")>>

\* C13: with revoke_grants, grant_roles_func plans one REVOKE for each listed
\* role the grantee holds, in list order, nothing for a listed role that is
\* not held, and no statement of another kind; what it sends is a prefix of
\* that plan.
C13_RoleRevokeExactness ==
    /\ [][(RoleCallPlans /\ params'.revoke_grants)
          => LET held == SelectSeq(params'.grant_roles,
                             LAMBDA r : r \in Held(server, params'.grantee_name))
             IN  query_list' = [i \in DOMAIN held |->
                                   role_query(held[i], params'.grantee_name)]]_vars
    /\ []((fn = "grant_roles_func" /\ params.revoke_grants)
          => (/\ SentInOrder
              /\ \A i \in DOMAIN query_list : query_list[i].kind = "REVOKE_ROLE"))

\* r2 then r1 were listed, both were held, both were revoked in that order.
C13_Witness ==
    /\ pc = "done"
    /\ fn = "grant_roles_func"
    /\ params.revoke_grants
    /\ params.grant_roles = <<"r2", "r1">>
    /\ ~result.failed
    /\ Executed(gateway) = <<role_query("r2", Principal), role_query("r1", Principal)>>
    /\ Held(server, Principal) = {}

\* C14: a role call without revoke_grants and without replace_grants plans
\* exactly one GRANT, of the whole list and without the replace clause, as its
\* last statement when some listed role is not held (only CREATE ROLE
\* statements may precede it); when every listed role is held it plans and
\* sends nothing and reports changed = false, with init_roles or without.
C14_AdditiveGating ==
    [][(RoleCallPlans /\ ~params'.revoke_grants /\ ~params'.replace_grants)
       => IF Range(params'.grant_roles) \subseteq Held(server, params'.grantee_name)
          THEN /\ query_list' = <<>>
               /\ Sent(gateway') = <<>>
               /\ pc' = "done"
               /\ ~result'.changed
          ELSE /\ OfKinds(query_list', {"GRANT_ROLE"})
                     = <<grant_roles_query(params'.grant_roles, params'.grantee_name, FALSE)>>
               /\ query_list'[Len(query_list')].kind = "GRANT_ROLE"
               /\ \A i \in DOMAIN query_list' :
                     query_list'[i].kind \in {"CREATE_ROLE", "GRANT_ROLE"}]_vars

\* A first call with init_roles for two roles that are both held: nothing
\* planned, nothing sent.
C14_Witness ==
    /\ pc = "done"
    /\ fn = "grant_roles_func"
    /\ ~params.revoke_grants
    /\ ~params.replace_grants
    /\ params.init_roles
    /\ params.grant_roles = <<"r1", "r2">>
    /\ Held(server, Principal) = {"r1", "r2"}
    /\ ~repeat
    /\ query_list = <<>>
    /\ Sent(gateway) = <<>>
    /\ ~result.failed
    /\ ~result.changed

\* C15: a role call with replace_grants and without revoke_grants plans, on
\* every run and also when every listed role is held, exactly one GRANT of the
\* whole list with the replace clause; it is the last statement of the plan
\* and everything before it is a CREATE ROLE.
C15_UnconditionalReplace ==
    [][(RoleCallPlans /\ ~params'.revoke_grants /\ params'.replace_grants)
       => (/\ query_list' # <<>>
           /\ pc' = "exec"
           /\ OfKinds(query_list', {"GRANT_ROLE"})
                 = <<grant_roles_query(params'.grant_roles, params'.grantee_name, TRUE)>>
           /\ query_list'[Len(query_list')].kind = "GRANT_ROLE"
           /\ \A i \in 1..(Len(query_list') - 1) : query_list'[i].kind = "CREATE_ROLE")]_vars

\* The repeat of a successful replace call: r1 is held and granted again.
C15_Witness ==
    /\ pc = "done"
    /\ fn = "grant_roles_func"
    /\ ~params.revoke_grants
    /\ params.replace_grants
    /\ params.grant_roles = <<"r1">>
    /\ repeat
    /\ Executed(gateway) = <<grant_roles_query(<<"r1">>, Principal, TRUE)>>
    /\ result.changed

\* C16: a create_update_user call plans CREATE USER iff the user is not on
\* the server, ALTER QUOTA iff a quota is named and the user is not in its
\* apply_to_list, ALTER USER ... SETTINGS PROFILE iff a profile is named and
\* not assigned, and GRANT iff roles are named and not all held; each at most
\* once, and each whatever the other three checks say.
C16_IndependentGating ==
    [][(/\ CallStarts
        /\ fn' = "create_update_user"
        /\ ~result'.failed)
       => LET user == params'.user_name
              quota == params'.user_quota
              profile == params'.user_profile
              roles == params'.user_roles
              planned(kind) == Len(OfKinds(query_list', {kind}))
              one(b) == IF b THEN 1 ELSE 0
          IN  /\ planned("CREATE_USER") = one(user \notin server.users)
              /\ planned("ALTER_QUOTA")
                    = one(/\ quota # ""
                          /\ ~(/\ quota \in DOMAIN server.quotas
                               /\ user \in Range(server.quotas[quota])))
              /\ planned("ALTER_PROFILE")
                    = one(profile # "" /\ <<user, profile>> \notin server.settings_profile)
              /\ planned("GRANT_ROLE")
                    = one(roles # <<>> /\ ~(Range(roles) \subseteq Held(server, user)))
              /\ Len(query_list') = planned("CREATE_USER") + planned("ALTER_QUOTA")
                                       + planned("ALTER_PROFILE") + planned("GRANT_ROLE")]_vars

\* An existing user with the profile and the role but outside the quota: the
\* call executed the ALTER QUOTA and nothing else.
C16_Witness ==
    /\ pc = "done"
    /\ fn = "create_update_user"
    /\ params.user_quota = "q1"
    /\ params.user_profile = "p1"
    /\ params.user_roles = <<"r1">>
    /\ ~result.failed
    /\ Executed(gateway) = <<quota_query("q1", <<OtherUser, Principal>>)>>
    /\ <<Principal, "p1">> \in server.settings_profile
    /\ Held(server, Principal) = {"r1"}

\* C17: a delete_user call plans exactly DROP USER when the user is on the
\* server and, once the statement is executed, returns changed = true with
\* the user gone; it plans and sends nothing and returns changed = false when
\* the user is not there.  No statement of another kind is planned or sent.
C17_UserDeletion ==
    /\ [][(CallStarts /\ fn' = "delete_user" /\ ~result'.failed)
          => IF params'.user_name \in server.users
             THEN query_list' = <<drop_user_query(params'.user_name)>> /\ pc' = "exec"
             ELSE /\ query_list' = <<>>
                  /\ Sent(gateway') = <<>>
                  /\ pc' = "done"
                  /\ ~result'.changed]_vars
    /\ [](fn = "delete_user"
          => (/\ SentInOrder
              /\ \A i \in DOMAIN query_list : query_list[i].kind = "DROP_USER"
              /\ (pc = "done" /\ ~result.failed /\ query_list # <<>>)
                    => (/\ result.changed
                        /\ Executed(gateway) = query_list
                        /\ params.user_name \notin server.users)
              /\ (pc = "done" /\ ~result.failed /\ query_list = <<>>)
                    => ~result.changed))

C17_Witness ==
    /\ pc = "done"
    /\ fn = "delete_user"
    /\ params.user_roles = <<"r1">>
    /\ params.user_quota = "q1"
    /\ Executed(gateway) = <<drop_user_query(Principal)>>
    /\ result.changed
    /\ ~result.failed
    /\ Principal \notin server.users

\* C18: when a grant_roles_func call has ended without failure (every
\* statement it planned was applied, and nobody else touched the server), the
\* grantee holds every listed role if revoke_grants is off, holds exactly the
\* listed roles if replace_grants is on as well, and holds none of the listed
\* roles if revoke_grants is on.
C18_RoleConvergence ==
    (pc = "done" /\ fn = "grant_roles_func" /\ ~result.failed)
    => LET R == Range(params.grant_roles)
           H == Held(server, params.grantee_name)
       IN  /\ Executed(gateway) = query_list
           /\ ~params.revoke_grants => R \subseteq H
           /\ (~params.revoke_grants /\ params.replace_grants) => H = R
           /\ params.revoke_grants => R \cap H = {}

\* A replace call for r1 alone has created and granted it; r2, which exists
\* on the server, is not held afterwards.
C18_Witness ==
    /\ pc = "done"
    /\ fn = "grant_roles_func"
    /\ ~params.revoke_grants
    /\ params.replace_grants
    /\ params.init_roles
    /\ ~result.failed
    /\ Executed(gateway) = <<create_role_query("r1"),
                             grant_roles_query(<<"r1">>, Principal, TRUE)>>
    /\ server.roles = {"r1", "r2"}
    /\ Held(server, Principal) = {"r1"}

\* C19: in a non-revoke role call with init_roles, once another client has
\* created a listed role after the call's observation, the server still
\* accepts whatever statement the call sends next: the CREATE ROLE IF NOT
\* EXISTS of the role that now exists, the remaining ones, and the GRANT that
\* follows them.
C19_ConcurrentRoleCreation ==
    (/\ pc = "exec"
     /\ fn = "grant_roles_func"
     /\ ~params.revoke_grants
     /\ params.init_roles
     /\ external \cap Range(params.grant_roles) # {})
    => (/\ SentInOrder
        /\ NextQuery.kind \in {"CREATE_ROLE", "GRANT_ROLE"}
        /\ ServerAccepts(server, NextQuery))

\* r2 did not exist when the call observed; another client created it before
\* the call's own CREATE ROLE of r2, which was executed, and so was the GRANT.
C19_Witness ==
    /\ pc = "done"
    /\ fn = "grant_roles_func"
    /\ external = {"r2"}
    /\ ~result.failed
    /\ Executed(gateway) = <<create_role_query("r1"), create_role_query("r2"),
                             grant_roles_query(<<"r1", "r2">>, Principal, FALSE)>>
    /\ Held(server, Principal) = {"r1", "r2"}

\* C20: in every call of either module all observation queries precede the
\* first mutating statement: the step that observes and plans leaves the
\* server as it was and sends no statement, the plan is not changed and
\* nothing is read once execution has begun, and a call whose observation
\* query failed has planned and sent nothing and ends in failure.
C20_ObserveThenMutate ==
    /\ [](\A i, j \in DOMAIN gateway :
             (i < j /\ IsRead(gateway[j].q)) => IsRead(gateway[i].q))
    /\ []((\E i \in DOMAIN gateway : IsRead(gateway[i].q) /\ ~gateway[i].ok)
          => (/\ pc = "done"
              /\ result.failed
              /\ query_list = <<>>
              /\ Sent(gateway) = <<>>))
    /\ [][CallStarts => (server' = server /\ Sent(gateway') = <<>>)]_vars
    /\ [][pc = "exec"
          => (query_list' = query_list /\ Reads(gateway') = Reads(gateway))]_vars

\* The user was absent: five observation queries, then the four statements.
C20_Witness ==
    /\ pc = "done"
    /\ fn = "create_update_user"
    /\ ~result.failed
    /\ Len(gateway) = 9
    /\ \A i \in 1..5 : IsRead(gateway[i].q) /\ gateway[i].ok
    /\ \A i \in 6..9 : ~IsRead(gateway[i].q) /\ gateway[i].ok
    /\ gateway[6].q.kind = "CREATE_USER"

GrantKinds == {"GRANT_ROLE", "GRANT_PRIV"}
RevokeKinds == {"REVOKE_ROLE", "REVOKE_PRIV"}

\* C22: in a grant_roles_func or grants_func call with revoke_grants every
\* statement planned and every statement sent is a REVOKE without a replace
\* clause (no GRANT, no CREATE ROLE), whatever replace_grants and init_roles
\* are; and no call of the module plans or sends both a GRANT and a REVOKE.
C22_RevokePrecedence ==
    LET stmts == Range(query_list) \cup {e.q : e \in Range(Sent(gateway))}
    IN  /\ (fn \in {"grant_roles_func", "grants_func"} /\ params.revoke_grants)
              => \A q \in stmts : q.kind \in RevokeKinds /\ ~q.replace
        /\ ~(\E q1, q2 \in stmts : q1.kind \in GrantKinds /\ q2.kind \in RevokeKinds)

\* revoke_grants, replace_grants and init_roles all set, r1 held and r2 not:
\* the one REVOKE of r1 was executed.
C22_Witness ==
    /\ pc = "done"
    /\ fn = "grant_roles_func"
    /\ params.revoke_grants
    /\ params.replace_grants
    /\ params.init_roles
    /\ params.grant_roles = <<"r1", "r2">>
    /\ ~result.failed
    /\ query_list = <<role_query("r1", Principal)>>
    /\ Executed(gateway) = query_list

====
